---- MODULE Spec2Model ----
(***************************************************************************)
(* Model of drivers/misc/moto-sensorhub/motosh_time.c: the AP/sensor-hub   *)
(* time synchronisation (motosh_time_sync), the recovery of a full         *)
(* timestamp from a truncated hub timestamp (motosh_time_recover) and the  *)
(* drift compensation of the offset (motosh_time_drift_comp).              *)
(*                                                                         *)
(* The C code computes in int64_t, uint64_t and int32_t.  TLC's integers   *)
(* are 32 bits wide, so a 64-bit value is a tuple of 16-bit limbs, least   *)
(* significant first, in two's complement; the operators below are the     *)
(* machine operations on such tuples, at the width of the C type.          *)
(***************************************************************************)
EXTENDS Integers, Sequences, FiniteSets, TLC

(***************************************************************************)
(* Fixed-width machine arithmetic                                          *)
(***************************************************************************)
\* one limb holds 16 bits
LimbBase == 65536

\* sign bit of the most significant limb
LimbSign == 32768

\* number of limbs of an int64_t / uint64_t
W64 == 4

\* number of limbs of an int32_t
W32 == 2

\* the k-limb value of a natural number below 2^31
NatL(n, k) ==
    [i \in 1..k |-> IF i = 1 THEN n % LimbBase
                    ELSE IF i = 2 THEN n \div LimbBase
                    ELSE 0]

RECURSIVE AddFrom(_, _, _, _)
\* the limbs i.. of a + b + c, c the carry into limb i
AddFrom(a, b, c, i) ==
    IF i > Len(a) THEN << >>
    ELSE LET s == a[i] + b[i] + c
         IN  << s % LimbBase >> \o AddFrom(a, b, s \div LimbBase, i + 1)

\* a + b modulo 2^(16*Len(a)); here and below the operands are bound to
\* their values x and y, so that each is evaluated once
AddL(a, b) ==
    CHOOSE s \in {AddFrom(x, y, 0, 1) : x \in {a}, y \in {b}} : TRUE

\* bitwise complement
NotL(a) == [i \in 1..Len(a) |-> LimbBase - 1 - a[i]]

\* a - b modulo 2^(16*Len(a)): a + ~b + 1
SubL(a, b) ==
    CHOOSE s \in {AddFrom(x, NotL(y), 1, 1) : x \in {a}, y \in {b}} : TRUE

\* -a modulo 2^(16*Len(a))
NegL(a) == SubL(NatL(0, Len(a)), a)

RECURSIVE MulFrom(_, _, _, _)
\* the limbs i.. of a * m + c, c the carry into limb i
MulFrom(a, m, c, i) ==
    IF i > Len(a) THEN << >>
    ELSE LET p == a[i] * m + c
         IN  << p % LimbBase >> \o MulFrom(a, m, p \div LimbBase, i + 1)

\* a * m modulo 2^(16*Len(a)), for a multiplier 0 <= m < 2^15
MulL(a, m) ==
    CHOOSE p \in {MulFrom(x, m, 0, 1) : x \in {a}} : TRUE

RECURSIVE DivFrom(_, _, _, _)
\* the limbs i..1 of the long division by m, r the remainder of the limbs
\* above limb i
DivFrom(a, m, r, i) ==
    IF i = 0 THEN << >>
    ELSE LET n == r * LimbBase + a[i]
         IN  DivFrom(a, m, n % m, i - 1) \o << n \div m >>

\* unsigned quotient a / m, for a divisor 0 < m < 2^15
UDivL(a, m) ==
    CHOOSE q \in {DivFrom(x, m, 0, Len(x)) : x \in {a}} : TRUE

\* the sign of a as a two's complement number
IsNegL(a) == a[Len(a)] >= LimbSign

\* signed quotient a / m truncated toward zero, as C's / and div64_s64
SDivL(a, m) ==
    CHOOSE q \in {IF IsNegL(x) THEN NegL(UDivL(NegL(x), m))
                  ELSE UDivL(x, m) : x \in {a}} : TRUE

RECURSIVE ULessFrom(_, _, _)
\* unsigned a < b, deciding on limbs i..1
ULessFrom(a, b, i) ==
    IF i = 0 THEN FALSE
    ELSE IF a[i] # b[i] THEN a[i] < b[i]
    ELSE ULessFrom(a, b, i-1)

\* signed a < b
SLessL(a, b) ==
    IF IsNegL(a) # IsNegL(b) THEN IsNegL(a)
    ELSE ULessFrom(a, b, Len(a))

\* a converted to a wider or narrower signed type of k limbs
SignExtL(a, k) ==
    [i \in 1..k |-> IF i <= Len(a) THEN a[i]
                    ELSE IF IsNegL(a) THEN LimbBase - 1 ELSE 0]

\* an int32_t as limbs (TLC integers are the int32_t values themselves)
I32L(x) ==
    IF x >= 0 THEN NatL(x, W32)
    ELSE LET y == (x + 2147483647) + 1
         IN  <<y % LimbBase, (y \div LimbBase) + LimbSign>>

\* the int32_t held by the two low limbs of a
LI32(a) ==
    IF a[2] < LimbSign THEN a[2] * LimbBase + a[1]
    ELSE (a[2] - LimbBase) * LimbBase + a[1]

\* int32_t multiplication by a small constant, wrapping at 32 bits
Mul32(x, m) == LI32(MulL(I32L(x), m))

\* int32_t subtraction, wrapping at 32 bits
Sub32(x, y) == LI32(SubL(I32L(x), I32L(y)))

\* an int32_t converted to int64_t
I64(x) == SignExtL(I32L(x), W64)

\* the low 28 bits of a (a & 0xFFFFFFF), an integer in 0..2^28-1
Low28(a) == a[1] + (a[2] % 4096) * LimbBase

\* a with the low 28 bits cleared (a & 0xFFFFFFFFF0000000)
ClearLow28(a) == [a EXCEPT ![1] = 0, ![2] = a[2] - (a[2] % 4096)]

\* a | v for a value a whose low 28 bits are clear and 0 <= v < 2^28
OrLow28(a, v) ==
    [a EXCEPT ![1] = v % LimbBase, ![2] = a[2] + (v \div LimbBase)]

(***************************************************************************)
(* Constants of motosh_time.c                                              *)
(***************************************************************************)
\* 100 ms in ns
MAX_DRIFT_LATENCY == 100000000

\* .2 ms in ns
MIN_DRIFT_LATENCY == 200000

\* DRIFT_NUDGE twice as large as the band of latencies
DRIFT_NUDGE_Coarse == 2 * MAX_DRIFT_LATENCY

\* .05 ms in ns
DRIFT_NUDGE == 50000

(***************************************************************************)
(* motosh_time_sync: the computations                                      *)
(***************************************************************************)
\* ap_time1 = ts.tv_sec*1000000000LL + ts.tv_nsec
ApTime1(t) ==
    AddL(MulL(MulL(MulL(NatL(t.tv_sec, W64), 1000), 1000), 1000),
         NatL(t.tv_nsec, W64))

\* the uint64_t assembled from readbuff[0..7], most significant byte first
ReadbuffValue(rb) ==
    << rb[7] * 256 + rb[8], rb[5] * 256 + rb[6],
       rb[3] * 256 + rb[4], rb[1] * 256 + rb[2] >>

\* HubTime without the conversion from us to ns
HubTime_Unscaled(rb) == ReadbuffValue(rb)

\* hub_time = (readbuff as big-endian uint64_t) * 1000, in nanoseconds
HubTime(rb) == MulL(ReadbuffValue(rb), 1000)

\* delta = ap_time1 - hub_time
SyncDelta(t, rb) == SubL(ApTime1(t), HubTime(rb))

(***************************************************************************)
(* motosh_time_recover: the computations                                   *)
(***************************************************************************)
\* HubshortUs keeping the low 28 bits of the product only
HubshortUs_Masked(hubshort_arg) == Low28(I32L(Mul32(hubshort_arg, 16)))

\* hubshort *= 16: the short hub time in us, in the int32_t parameter
HubshortUs(hubshort_arg) == Mul32(hubshort_arg, 16)

\* hubtime_estimate = div64_s64(cur_time - motosh_realtime_delta, 1000)
HubtimeEstimate(cur_time, delta) == SDivL(SubL(cur_time, delta), 1000)

\* short_hubtime_estimate = hubtime_estimate & 0xFFFFFFF
ShortHubtimeEstimate(hubtime_estimate) == Low28(hubtime_estimate)

\* RollForward with >= for >
RollForward_Inclusive(short_hubtime_estimate, hubshort) ==
    Sub32(short_hubtime_estimate, hubshort) >= 130000000

\* short_hubtime_estimate - hubshort > 130000000
RollForward(short_hubtime_estimate, hubshort) ==
    Sub32(short_hubtime_estimate, hubshort) > 130000000

\* RollBack with the operands of the subtraction exchanged
RollBack_Swapped(short_hubtime_estimate, hubshort) ==
    Sub32(short_hubtime_estimate, hubshort) > 130000000

\* hubshort - short_hubtime_estimate > 130000000
RollBack(short_hubtime_estimate, hubshort) ==
    Sub32(hubshort, short_hubtime_estimate) > 130000000

\* RolledEstimate with a span of 0x01000000
RolledEstimate_ShortSpan(hubtime_estimate, hubshort) ==
    LET short_hubtime_estimate == ShortHubtimeEstimate(hubtime_estimate)
    IN  IF RollForward(short_hubtime_estimate, hubshort)
            THEN AddL(hubtime_estimate, NatL(16777216, W64))
        ELSE IF RollBack(short_hubtime_estimate, hubshort)
            THEN SubL(hubtime_estimate, NatL(16777216, W64))
        ELSE hubtime_estimate

\* the estimate after the rollover test: += or -= 0x010000000, or as it was
RolledEstimate(hubtime_estimate, hubshort) ==
    LET short_hubtime_estimate == ShortHubtimeEstimate(hubtime_estimate)
    IN  IF RollForward(short_hubtime_estimate, hubshort)
            THEN AddL(hubtime_estimate, NatL(268435456, W64))
        ELSE IF RollBack(short_hubtime_estimate, hubshort)
            THEN SubL(hubtime_estimate, NatL(268435456, W64))
        ELSE hubtime_estimate

\* hubtime = ((hubtime_estimate & 0xFFFFFFFFF0000000) |
\*            (hubshort & 0xFFFFFFF)) * 1000
RecoveredHubtime(hubtime_estimate, hubshort) ==
    MulL(OrLow28(ClearLow28(hubtime_estimate), Low28(I32L(hubshort))), 1000)

\* TimeRecover without the conversion of hubshort to us
TimeRecover_Unscaled(hubshort_arg, cur_time, delta_est, delta_ret) ==
    LET hubshort == hubshort_arg
        hubtime_estimate ==
            RolledEstimate(HubtimeEstimate(cur_time, delta_est), hubshort)
    IN  AddL(RecoveredHubtime(hubtime_estimate, hubshort), delta_ret)

\* motosh_time_recover(hubshort, cur_time); delta_est is the value of
\* motosh_realtime_delta read for the estimate and delta_ret the value read
\* for the return statement
TimeRecover(hubshort_arg, cur_time, delta_est, delta_ret) ==
    LET hubshort == HubshortUs(hubshort_arg)
        hubtime_estimate ==
            RolledEstimate(HubtimeEstimate(cur_time, delta_est), hubshort)
    IN  AddL(RecoveredHubtime(hubtime_estimate, hubshort), delta_ret)

(***************************************************************************)
(* motosh_time_drift_comp: the computations                                *)
(***************************************************************************)
\* offset = cur_time - rec_hub
DriftOffset(rec_hub, cur_time) == SubL(cur_time, rec_hub)

\* NudgeUp with >= for >
NudgeUp_Inclusive(streaming, offset) ==
    streaming /\ ~SLessL(offset, NatL(MAX_DRIFT_LATENCY, W64))

\* NudgeUp compared with the lower bound
NudgeUp_WrongBound(streaming, offset) ==
    streaming /\ SLessL(NatL(MIN_DRIFT_LATENCY, W64), offset)

\* NudgeUp without the streaming test
NudgeUp_Ungated(streaming, offset) ==
    SLessL(NatL(MAX_DRIFT_LATENCY, W64), offset)

\* streaming && offset > MAX_DRIFT_LATENCY
NudgeUp(streaming, offset) ==
    streaming /\ SLessL(NatL(MAX_DRIFT_LATENCY, W64), offset)

\* NudgeDown with <= for <
NudgeDown_Inclusive(offset) ==
    ~SLessL(NatL(MIN_DRIFT_LATENCY, W64), offset)

\* offset < MIN_DRIFT_LATENCY
NudgeDown(offset) == SLessL(offset, NatL(MIN_DRIFT_LATENCY, W64))

\* the value returned by motosh_time_drift_comp
DriftNudged(streaming, offset) ==
    IF NudgeUp(streaming, offset) THEN 1
    ELSE IF NudgeDown(offset) THEN -1
    ELSE 0

\* motosh_realtime_delta after a call that returns nudged
DriftDelta(delta, nudged) ==
    IF nudged = 1 THEN AddL(delta, NatL(DRIFT_NUDGE, W64))
    ELSE IF nudged = -1 THEN SubL(delta, NatL(DRIFT_NUDGE, W64))
    ELSE delta

(***************************************************************************)
(* State                                                                   *)
(***************************************************************************)
VARIABLES
    motosh_realtime_delta,  \* static int64_t motosh_realtime_delta
    time_sync_lock,         \* static spinlock_t time_sync_lock
    gpio_sh_wake,           \* level of the wake line to the hub
    sync_pc,                \* position of the caller of motosh_time_sync
    ts,                     \* motosh_time_sync: struct timespec ts
    readbuff,               \* motosh_time_sync: unsigned char readbuff[8]
    err,                    \* motosh_time_sync: int err
    nudges,                 \* nudging drift_comp calls since the last sync
    last,                   \* the last step taken, its arguments and result
    sync_trace,             \* what the current motosh_time_sync call did to
                            \* the wake line, the lock, the clock and the bus
    drift_ctx,              \* callers inside motosh_time_drift_comp
    recover_ctx,            \* the caller inside motosh_time_recover
    stream                  \* the stream of events being handled

vars == << motosh_realtime_delta, time_sync_lock, gpio_sh_wake, sync_pc,
           ts, readbuff, err, nudges, last, sync_trace, drift_ctx,
           recover_ctx, stream >>

\* the variables of the interleaved calls and of the event stream
ctxVars == << drift_ctx, recover_ctx, stream >>

(***************************************************************************)
(* Bounds and inputs                                                       *)
(***************************************************************************)
\* at most this many nudges of the offset between two syncs
MaxNudges == 2

\* readings of get_monotonic_boottime in motosh_time_sync
SyncTimes ==
    { [tv_sec |-> 0,   tv_nsec |-> 0],
      [tv_sec |-> 1,   tv_nsec |-> 50000000],
      [tv_sec |-> 300, tv_nsec |-> 999999999] }

\* contents of readbuff after motosh_i2c_write_read: 1000000 us, 0 us,
\* 1050000 us, 0x0102030405 us, and 2^64-1
Responses ==
    { <<0, 0, 0, 0, 0, 15, 66, 64>>,
      <<0, 0, 0, 0, 0, 0, 0, 0>>,
      <<0, 0, 0, 0, 0, 16, 5, 144>>,
      <<0, 0, 0, 1, 2, 3, 4, 5>>,
      <<255, 255, 255, 255, 255, 255, 255, 255>> }

\* return values of motosh_i2c_write_read: success and -EIO
ErrValues == {0, -5}

\* short hub times and AP times handed to motosh_time_recover
RecoverShorts == {0, 125000}

RecoverNows == {NatL(2051000000, W64)}

\* AP times handed to motosh_time_drift_comp, and the distances
\* cur_time - rec_hub of the recovered hub times handed to it
DriftNows == {NatL(2051000000, W64)}

DriftOffsets == {-1000, 0, 199999, 200000, 50000000, 100000000, 100000001}

(***************************************************************************)
(* Initial state: statics are zero, nothing has been called                *)
(***************************************************************************)
\* a timespec that was not filled in
NoTimespec == [tv_sec |-> 0, tv_nsec |-> 0]

\* readbuff before motosh_i2c_write_read filled it
NoReadbuff == << >>

\* the contexts that may be inside motosh_time_drift_comp at the same time
DriftCtxs == {1, 2}

\* a context that is not inside a call
NoCall == [pc |-> "idle"]

\* no stream of events is being handled
NoStream == [pc |-> "off"]

Init ==
    /\ motosh_realtime_delta = NatL(0, W64)
    /\ time_sync_lock = "zeroed"
    /\ gpio_sh_wake = 0
    /\ sync_pc = "idle"
    /\ ts = NoTimespec
    /\ readbuff = NoReadbuff
    /\ err = 0
    /\ nudges = 0
    /\ last = [op |-> "none"]
    /\ sync_trace = << >>
    /\ drift_ctx = [c \in DriftCtxs |-> NoCall]
    /\ recover_ctx = NoCall
    /\ stream = NoStream

(***************************************************************************)
(* motosh_time_sync, one action per statement                              *)
(***************************************************************************)
\* what a call does, in order: falling edge, lock, clock sample, rising
\* edge, unlock, one exchange
SyncOrder == << "gpio_low", "lock", "boottime", "gpio_high", "unlock", "i2c" >>

\* entry: locals are fresh, err = 0; one time init of the lock when the
\* offset is zero
SyncEnter ==
    /\ sync_pc = "idle"
    /\ ts' = NoTimespec
    /\ readbuff' = NoReadbuff
    /\ err' = 0
    /\ time_sync_lock' =
           IF motosh_realtime_delta = NatL(0, W64) THEN "unlocked"
           ELSE time_sync_lock
    /\ sync_pc' = "gpio_low"
    /\ last' = [op |-> "sync_enter",
                first |-> motosh_realtime_delta = NatL(0, W64),
                lock_was |-> time_sync_lock]
    /\ sync_trace' = << >>
    /\ UNCHANGED << motosh_realtime_delta, gpio_sh_wake, nudges >>

\* gpio_set_value(gpio_sh_wake, 0)
SyncGpioLow ==
    /\ sync_pc = "gpio_low"
    /\ gpio_sh_wake' = 0
    /\ sync_pc' = "lock"
    /\ last' = [op |-> "sync"]
    /\ sync_trace' = Append(sync_trace, "gpio_low")
    /\ UNCHANGED << motosh_realtime_delta, time_sync_lock, ts, readbuff,
                    err, nudges >>

\* spin_lock_irqsave(&time_sync_lock, flags)
SyncLock ==
    /\ sync_pc = "lock"
    /\ time_sync_lock # "locked"
    /\ time_sync_lock' = "locked"
    /\ sync_pc' = "boottime"
    /\ last' = [op |-> "sync"]
    /\ sync_trace' = Append(sync_trace, "lock")
    /\ UNCHANGED << motosh_realtime_delta, gpio_sh_wake, ts, readbuff,
                    err, nudges >>

\* get_monotonic_boottime(&ts)
SyncBoottime ==
    /\ sync_pc = "boottime"
    /\ \E t \in SyncTimes : ts' = t
    /\ sync_pc' = "gpio_high"
    /\ last' = [op |-> "sync"]
    /\ sync_trace' = Append(sync_trace, "boottime")
    /\ UNCHANGED << motosh_realtime_delta, time_sync_lock, gpio_sh_wake,
                    readbuff, err, nudges >>

\* gpio_set_value(gpio_sh_wake, 1)
SyncGpioHigh ==
    /\ sync_pc = "gpio_high"
    /\ gpio_sh_wake' = 1
    /\ sync_pc' = "unlock"
    /\ last' = [op |-> "sync"]
    /\ sync_trace' = Append(sync_trace, "gpio_high")
    /\ UNCHANGED << motosh_realtime_delta, time_sync_lock, ts, readbuff,
                    err, nudges >>

\* the lock is kept across the exchange
SyncUnlock_Kept ==
    /\ sync_pc = "unlock"
    /\ sync_pc' = "i2c"
    /\ last' = [op |-> "sync"]
    /\ sync_trace' = Append(sync_trace, "unlock")
    /\ UNCHANGED << motosh_realtime_delta, time_sync_lock, gpio_sh_wake, ts,
                    readbuff, err, nudges >>

\* spin_unlock_irqrestore(&time_sync_lock, flags)
SyncUnlock ==
    /\ sync_pc = "unlock"
    /\ time_sync_lock' = "unlocked"
    /\ sync_pc' = "i2c"
    /\ last' = [op |-> "sync"]
    /\ sync_trace' = Append(sync_trace, "unlock")
    /\ UNCHANGED << motosh_realtime_delta, gpio_sh_wake, ts, readbuff,
                    err, nudges >>

\* a failed exchange is tried again
SyncI2c_Retry ==
    /\ sync_pc = "i2c"
    /\ \E e \in ErrValues, rb \in Responses :
           /\ err' = e
           /\ readbuff' = rb
           /\ sync_pc' = IF e < 0 THEN "i2c" ELSE "store"
    /\ last' = [op |-> "sync"]
    /\ sync_trace' = Append(sync_trace, "i2c")
    /\ UNCHANGED << motosh_realtime_delta, time_sync_lock, gpio_sh_wake,
                    ts, nudges >>

\* err = motosh_i2c_write_read(..., readbuff, 1, 8): on success readbuff is
\* the hub's response; on failure the call reports err < 0 and readbuff,
\* which was never initialised, holds whatever the stack and a partial
\* transfer left in it
SyncI2c ==
    /\ sync_pc = "i2c"
    /\ \E e \in ErrValues, rb \in Responses :
           /\ err' = e
           /\ readbuff' = rb
    /\ sync_pc' = "store"
    /\ last' = [op |-> "sync"]
    /\ sync_trace' = Append(sync_trace, "i2c")
    /\ UNCHANGED << motosh_realtime_delta, time_sync_lock, gpio_sh_wake,
                    ts, nudges >>

\* hub_time = ...; delta = ap_time1 - hub_time;
\* motosh_realtime_delta = delta, whatever err is; return
SyncStore ==
    /\ sync_pc = "store"
    /\ motosh_realtime_delta' = SyncDelta(ts, readbuff)
    /\ nudges' = 0
    /\ sync_pc' = "idle"
    /\ last' = [op |-> "sync_store", before |-> motosh_realtime_delta]
    /\ UNCHANGED << time_sync_lock, gpio_sh_wake, ts, readbuff, err,
                    sync_trace >>

(***************************************************************************)
(* motosh_time_recover and motosh_time_drift_comp                          *)
(***************************************************************************)
\* Recover keeping its result in motosh_realtime_delta
Recover_Store(hubshort, cur_time) ==
    /\ last' = [op |-> "recover", hubshort |-> hubshort,
                cur_time |-> cur_time,
                ret |-> TimeRecover(hubshort, cur_time,
                                    motosh_realtime_delta,
                                    motosh_realtime_delta)]
    /\ motosh_realtime_delta' = last'.ret
    /\ UNCHANGED << time_sync_lock, gpio_sh_wake, sync_pc, ts, readbuff,
                    err, nudges, sync_trace >>

\* motosh_time_recover(hubshort, cur_time)
Recover(hubshort, cur_time) ==
    /\ last' = [op |-> "recover", hubshort |-> hubshort,
                cur_time |-> cur_time,
                ret |-> TimeRecover(hubshort, cur_time,
                                    motosh_realtime_delta,
                                    motosh_realtime_delta)]
    /\ UNCHANGED << motosh_realtime_delta, time_sync_lock, gpio_sh_wake,
                    sync_pc, ts, readbuff, err, nudges, sync_trace >>

\* motosh_time_drift_comp(rec_hub, cur_time, streaming)
DriftCompCall(rec_hub, cur_time, streaming) ==
    LET nudged == DriftNudged(streaming, DriftOffset(rec_hub, cur_time))
    IN  /\ motosh_realtime_delta' = DriftDelta(motosh_realtime_delta, nudged)
        /\ nudges' = IF nudged = 0 THEN nudges ELSE nudges + 1
        /\ last' = [op |-> "drift_comp", rec_hub |-> rec_hub,
                    cur_time |-> cur_time, streaming |-> streaming,
                    before |-> motosh_realtime_delta, nudged |-> nudged]
        /\ UNCHANGED << time_sync_lock, gpio_sh_wake, sync_pc, ts,
                        readbuff, err, sync_trace >>

\* a call of motosh_time_drift_comp, while the nudging calls since the
\* last sync are fewer than MaxNudges
DriftComp(rec_hub, cur_time, streaming) ==
    /\ nudges < MaxNudges
    /\ DriftCompCall(rec_hub, cur_time, streaming)

\* a streamed event is recovered
RecoverEvent ==
    \E hubshort \in RecoverShorts, cur_time \in RecoverNows :
        Recover(hubshort, cur_time)

\* the drift of a recovered event is compensated
DriftCompEvent ==
    \E cur_time \in DriftNows, o \in DriftOffsets, streaming \in BOOLEAN :
        DriftComp(SubL(cur_time, I64(o)), cur_time, streaming)

\* one sync caller and one handler of events, whose calls of
\* motosh_time_recover and motosh_time_drift_comp run to completion
Next ==
    \/ SyncEnter /\ UNCHANGED ctxVars
    \/ SyncGpioLow /\ UNCHANGED ctxVars
    \/ SyncLock /\ UNCHANGED ctxVars
    \/ SyncBoottime /\ UNCHANGED ctxVars
    \/ SyncGpioHigh /\ UNCHANGED ctxVars
    \/ SyncUnlock /\ UNCHANGED ctxVars
    \/ SyncI2c /\ UNCHANGED ctxVars
    \/ SyncStore /\ UNCHANGED ctxVars
    \/ RecoverEvent /\ UNCHANGED ctxVars
    \/ DriftCompEvent /\ UNCHANGED ctxVars

Spec == Init /\ [][Next]_vars

(***************************************************************************)
(* motosh_time_recover as a function of its arguments and the offset:      *)
(* the offset is any value a sync and nudges can have left, the arguments  *)
(* are those of events that happened at a known hub time, or any values.   *)
(***************************************************************************)
\* values of motosh_realtime_delta: 0, 50 ms, -7 ns, 123456.789012345 s
RecoverOffsets ==
    { NatL(0, W64),
      NatL(50000000, W64),
      I64(-7),
      AddL(MulL(MulL(NatL(123456789, W64), 1000), 1000), NatL(12345, W64)) }

\* hub times of events, in us: whole numbers of 16 us ticks around the
\* wraps of the 28-bit microsecond counter (2^28 = 268435456)
EventHubTimes ==
    { 0, 2000000, 130000000, 268435440, 268435456, 268435472,
      406870912, 805306352 }

\* whole microseconds between the event and the reading of the AP clock
\* (negative: the event is ahead of the AP's estimate)
EventAgesUs ==
    { 0, 1, 1000, 129999999, 130000000, 130000001, 134217728,
      138435455, 138435456, 138435457,
      -1, -16, -130000000, -130000001, -134217728, -138435456,
      -138435457 }

\* nanoseconds on top of the whole microseconds
EventAgesNs == {0, 999}

\* the short hub time the hub sends for an event at hub time h (us):
\* the low 28 bits of the microsecond counter in 16 us ticks
HubShortOf(h) == (h % 268435456) \div 16

\* any short hub time and AP time
AnyShorts == {0, 1, 8125000, 16777215, 134217727, 134217728, 268435455}

AnyNows == { NatL(0, W64), NatL(2051000000, W64) }

InitRecover ==
    /\ motosh_realtime_delta \in RecoverOffsets
    /\ time_sync_lock = "zeroed"
    /\ gpio_sh_wake = 0
    /\ sync_pc = "idle"
    /\ ts = NoTimespec
    /\ readbuff = NoReadbuff
    /\ err = 0
    /\ nudges = 0
    /\ last = [op |-> "none"]
    /\ sync_trace = << >>
    /\ drift_ctx = [c \in DriftCtxs |-> NoCall]
    /\ recover_ctx = NoCall
    /\ stream = NoStream

\* the event at hub time h is recovered age_us us + age_ns ns later
RecoverArrival ==
    \E h \in EventHubTimes, age_us \in EventAgesUs, age_ns \in EventAgesNs :
        Recover(HubShortOf(h),
                AddL(AddL(MulL(I64(h), 1000), motosh_realtime_delta),
                     AddL(MulL(I64(age_us), 1000), I64(age_ns))))

\* motosh_time_recover is called with any arguments
RecoverAny ==
    \E hubshort \in AnyShorts, cur_time \in AnyNows :
        Recover(hubshort, cur_time)

NextRecover ==
    \/ RecoverArrival /\ UNCHANGED ctxVars
    \/ RecoverAny /\ UNCHANGED ctxVars

SpecRecover == InitRecover /\ [][NextRecover]_vars

(***************************************************************************)
(* Calls in different contexts, statement by statement.  Nothing orders    *)
(* the reads and writes of motosh_realtime_delta in motosh_time_recover    *)
(* and motosh_time_drift_comp against each other or against the store of   *)
(* motosh_time_sync, which is outside the lock: a call can be between its  *)
(* read and its write, or between its two reads, while another stores.     *)
(***************************************************************************)
\* the time read by the sync, the hub's response (1,000,000 us) and the
\* arguments of the interleaved calls
RaceTimes == { [tv_sec |-> 1, tv_nsec |-> 50000000] }

RaceResponses == { <<0, 0, 0, 0, 0, 15, 66, 64>> }

RaceShorts == {125000, 8252500}

RaceNows == { NatL(2051000000, W64) }

RaceOffsets == {0, 50000000, 100000001}

\* the caller inside motosh_time_recover sees the stored value d
Observed(rc, d) ==
    IF rc.pc = "return" THEN [rc EXCEPT !.seen = @ \cup {d}] ELSE rc

\* motosh_time_drift_comp in context c up to the read of
\* motosh_realtime_delta by += or -= ; a call that does not nudge returns
DriftLoad(c, rec_hub, cur_time, streaming) ==
    LET nudged == DriftNudged(streaming, DriftOffset(rec_hub, cur_time))
    IN  /\ drift_ctx[c].pc = "idle"
        /\ nudges < MaxNudges
        /\ nudges' = IF nudged = 0 THEN nudges ELSE nudges + 1
        /\ drift_ctx' =
               IF nudged = 0 THEN drift_ctx
               ELSE [drift_ctx EXCEPT
                        ![c] = [pc |-> "store", nudged |-> nudged,
                                loaded |-> motosh_realtime_delta]]
        /\ last' = [op |-> "drift_load", ctx |-> c, nudged |-> nudged]
        /\ UNCHANGED << motosh_realtime_delta, time_sync_lock, gpio_sh_wake,
                        sync_pc, ts, readbuff, err, sync_trace, recover_ctx,
                        stream >>

\* the write of += or -= in context c, and the return
DriftStore(c) ==
    /\ drift_ctx[c].pc = "store"
    /\ motosh_realtime_delta' =
           DriftDelta(drift_ctx[c].loaded, drift_ctx[c].nudged)
    /\ drift_ctx' = [drift_ctx EXCEPT ![c] = NoCall]
    /\ recover_ctx' = Observed(recover_ctx, motosh_realtime_delta')
    /\ last' = [op |-> "drift_store", ctx |-> c,
                nudged |-> drift_ctx[c].nudged,
                loaded |-> drift_ctx[c].loaded,
                before |-> motosh_realtime_delta]
    /\ UNCHANGED << time_sync_lock, gpio_sh_wake, sync_pc, ts, readbuff,
                    err, nudges, sync_trace, stream >>

\* motosh_time_recover up to the read of motosh_realtime_delta for the
\* estimate
RecoverRead(hubshort, cur_time) ==
    /\ recover_ctx.pc = "idle"
    /\ recover_ctx' = [pc |-> "return", hubshort |-> hubshort,
                       cur_time |-> cur_time,
                       delta_est |-> motosh_realtime_delta,
                       seen |-> {motosh_realtime_delta}]
    /\ last' = [op |-> "recover_read"]
    /\ UNCHANGED << motosh_realtime_delta, time_sync_lock, gpio_sh_wake,
                    sync_pc, ts, readbuff, err, nudges, sync_trace,
                    drift_ctx, stream >>

\* the rest of motosh_time_recover: the return statement adds
\* motosh_realtime_delta, which the build either reads again or has kept
\* from the first read
RecoverReturn ==
    /\ recover_ctx.pc = "return"
    /\ \E delta_ret \in {recover_ctx.delta_est, motosh_realtime_delta} :
           last' = [op |-> "recover_return",
                    hubshort |-> recover_ctx.hubshort,
                    cur_time |-> recover_ctx.cur_time,
                    seen |-> recover_ctx.seen,
                    ret |-> TimeRecover(recover_ctx.hubshort,
                                        recover_ctx.cur_time,
                                        recover_ctx.delta_est, delta_ret)]
    /\ recover_ctx' = NoCall
    /\ UNCHANGED << motosh_realtime_delta, time_sync_lock, gpio_sh_wake,
                    sync_pc, ts, readbuff, err, nudges, sync_trace,
                    drift_ctx, stream >>

\* the first sync call, one caller of recover and the callers of drift_comp
NextRace ==
    \/ SyncEnter /\ time_sync_lock = "zeroed" /\ UNCHANGED ctxVars
    \/ SyncGpioLow /\ UNCHANGED ctxVars
    \/ SyncLock /\ UNCHANGED ctxVars
    \/ SyncBoottime /\ ts' \in RaceTimes /\ UNCHANGED ctxVars
    \/ SyncGpioHigh /\ UNCHANGED ctxVars
    \/ SyncUnlock /\ UNCHANGED ctxVars
    \/ SyncI2c /\ err' = 0 /\ readbuff' \in RaceResponses
           /\ UNCHANGED ctxVars
    \/ SyncStore /\ recover_ctx' = Observed(recover_ctx, motosh_realtime_delta')
           /\ UNCHANGED << drift_ctx, stream >>
    \/ \E c \in DriftCtxs, cur_time \in RaceNows, o \in RaceOffsets :
           DriftLoad(c, SubL(cur_time, I64(o)), cur_time, TRUE)
    \/ \E c \in DriftCtxs : DriftStore(c)
    \/ \E hubshort \in RaceShorts, cur_time \in RaceNows :
           RecoverRead(hubshort, cur_time)
    \/ RecoverReturn

SpecRace == Init /\ [][NextRace]_vars

(***************************************************************************)
(* A stream of events: each event is recovered and its drift compensated,  *)
(* with streaming set, and no sync in between.  The events are periodic    *)
(* on the hub's clock and each is handled the same time after it happened. *)
(***************************************************************************)
\* events handled in one stream
MaxEvents == 6

\* the AP time at hub time 0, in ns
StreamTrueOffset == NatL(50000000, W64)

\* hub time of the first event and the period of the events, in us
StreamStart == 2000000

StreamPeriod == 200000

\* the time from an event to its handling, in ns: the ends and the middle
\* of the band from MIN_DRIFT_LATENCY to MAX_DRIFT_LATENCY
StreamAges == {MIN_DRIFT_LATENCY, 50000000, MAX_DRIFT_LATENCY}

\* motosh_realtime_delta minus the true offset when the stream starts
StreamErrors == {-150000, -100000, -70000, 0, 70000, 100000, 150000}

\* hub time of the next event of the stream, in us
StreamHubTime == StreamStart + Len(stream.results) * StreamPeriod

\* the AP time at which the next event of the stream is handled
StreamNow ==
    AddL(AddL(MulL(I64(StreamHubTime), 1000), StreamTrueOffset),
         I64(stream.age))

InitStream ==
    /\ \E e \in StreamErrors :
           motosh_realtime_delta = AddL(StreamTrueOffset, I64(e))
    /\ time_sync_lock = "unlocked"
    /\ gpio_sh_wake = 1
    /\ sync_pc = "idle"
    /\ ts = NoTimespec
    /\ readbuff = NoReadbuff
    /\ err = 0
    /\ nudges = 0
    /\ last = [op |-> "none"]
    /\ sync_trace = SyncOrder
    /\ drift_ctx = [c \in DriftCtxs |-> NoCall]
    /\ recover_ctx = NoCall
    /\ \E age \in StreamAges :
           stream = [pc |-> "recover", age |-> age, rec_hub |-> NatL(0, W64),
                     offsets |-> << >>, results |-> << >>]

\* the handler calls motosh_time_recover for the next event
StreamRecover ==
    /\ stream.pc = "recover"
    /\ Len(stream.results) < MaxEvents
    /\ Recover(HubShortOf(StreamHubTime), StreamNow)
    /\ stream' = [stream EXCEPT !.pc = "drift_comp", !.rec_hub = last'.ret]
    /\ UNCHANGED << drift_ctx, recover_ctx >>

\* the handler calls motosh_time_drift_comp with the recovered time
StreamDriftComp ==
    /\ stream.pc = "drift_comp"
    /\ DriftCompCall(stream.rec_hub, StreamNow, TRUE)
    /\ stream' = [stream EXCEPT
                     !.pc = "recover",
                     !.offsets =
                         Append(@, DriftOffset(stream.rec_hub, StreamNow)),
                     !.results = Append(@, last'.nudged)]
    /\ UNCHANGED << drift_ctx, recover_ctx >>

NextStream ==
    \/ StreamRecover
    \/ StreamDriftComp

\* the handler runs for every event of the stream
SpecStream == InitStream /\ [][NextStream]_vars /\ WF_vars(NextStream)

(***************************************************************************)
(* Properties of motosh_time_sync                                          *)
(***************************************************************************)
\* number of limbs wide enough for a host time minus 2^64 * 1000
W80 == W64 + 1

\* the 8 response bytes as a non-negative integer, most significant first
DecodedValue(rb) ==
    << rb[8] + 256 * rb[7], rb[6] + 256 * rb[5],
       rb[4] + 256 * rb[3], rb[2] + 256 * rb[1], 0 >>

\* the host time sampled in the critical section, in ns
HostT1(t) ==
    AddL(MulL(MulL(MulL(NatL(t.tv_sec, W80), 1000), 1000), 1000),
         NatL(t.tv_nsec, W80))

\* host_t1 - decoded_value * 1000 as an integer, without any wrap
ExactDelta(t, rb) == SubL(HostT1(t), MulL(DecodedValue(rb), 1000))

\* decoded_value * 1000 < 2^63
HubTimeFits(rb) ==
    LET p == MulL(DecodedValue(rb), 1000)
    IN  p[5] = 0 /\ p[4] < 32768

\* C1: if the exchange of a sync fails, the offset after the call is the
\* offset before it: the store that ends a failed call leaves
\* motosh_realtime_delta as it was.
C1_FailedSyncKeepsOffset ==
    (last.op = "sync_store" /\ err < 0)
        => motosh_realtime_delta = last.before

\* C2 as stated: after a sync whose exchange succeeded the offset is the
\* integer host_t1 - decoded_value * 1000, for every response.
C2_ExactForEveryResponse ==
    (last.op = "sync_store" /\ err = 0)
        => SignExtL(motosh_realtime_delta, W80) = ExactDelta(ts, readbuff)

\* C2 as amended: after a sync whose exchange succeeded the offset is
\* host_t1 - decoded_value * 1000 reduced modulo 2^64 to an int64_t,
\* whatever the offset was before, and it is that integer exactly whenever
\* decoded_value * 1000 is below 2^63.
C2_SyncDelta ==
    (last.op = "sync_store" /\ err = 0)
        => /\ motosh_realtime_delta = SubSeq(ExactDelta(ts, readbuff), 1, W64)
           /\ HubTimeFits(readbuff)
                  => SignExtL(motosh_realtime_delta, W80)
                         = ExactDelta(ts, readbuff)

\* C2 witness: a successful sync replaced a non-zero offset by 50 ms
C2_Witness ==
    /\ last.op = "sync_store"
    /\ err = 0
    /\ last.before # NatL(0, W64)
    /\ last.before # motosh_realtime_delta
    /\ readbuff = <<0, 0, 0, 0, 0, 15, 66, 64>>
    /\ motosh_realtime_delta = NatL(50000000, W64)

(***************************************************************************)
(* Properties of motosh_time_recover                                       *)
(***************************************************************************)
\* T = h * 1000 + offset: the host-base time of the event at hub time h us
EventHostTime(h) == AddL(MulL(I64(h), 1000), motosh_realtime_delta)

\* a <= b for signed values
SLeqL(a, b) == ~SLessL(b, a)

\* the last step recovered the event at hub time h and the event's age
\* host_now - T is at least 0 and at most max_us whole microseconds
RecoveredWithin(h, max_us) ==
    LET age == SubL(last.cur_time, EventHostTime(h))
    IN  /\ last.op = "recover"
        /\ last.hubshort = (h % 268435456) \div 16
        /\ SLeqL(NatL(0, W64), age)
        /\ SLessL(age, MulL(NatL(max_us + 1, W64), 1000))

\* C3 as stated: an event whose age is within half of the wrap window
\* (2^27 us) is recovered to exactly T.
C3_RoundTripHalfWindow ==
    \A h \in EventHubTimes :
        RecoveredWithin(h, 134217728) => last.ret = EventHostTime(h)

\* C3 as amended: an event whose age is at least 0 and, in whole
\* microseconds, at most the rollover threshold 130,000,000 us is
\* recovered to exactly T = H * 1000 + d.
C3_RoundTrip ==
    \A h \in EventHubTimes :
        RecoveredWithin(h, 130000000) => last.ret = EventHostTime(h)

\* C3 witness: an event 130,000,000 us old was recovered to T although the
\* estimate had passed a wrap of the 28-bit counter that the event had not
C3_Witness ==
    \E h \in EventHubTimes :
        /\ RecoveredWithin(h, 130000000)
        /\ ~RecoveredWithin(h, 129999999)
        /\ h % 268435456 > 268435456 - 130000000
        /\ last.ret = EventHostTime(h)

\* estimate = (host_now - ClockOffset) / 1000 of the last recover call
LastEstimate ==
    SDivL(SubL(last.cur_time, motosh_realtime_delta), 1000)

\* the last step was a recover call whose fragment, scaled to
\* microseconds, fits the signed 32-bit range
LastRecoverScaled ==
    /\ last.op = "recover"
    /\ last.hubshort >= 0
    /\ last.hubshort < 134217728

\* fragment_us = fragment * 16 of the last recover call
LastFragmentUs == last.hubshort * 16

\* estimate_low28 - fragment_us of the last recover call
LastDifference == Low28(LastEstimate) - LastFragmentUs

\* ((estimate with low 28 bits cleared) | (fragment_us & 0xFFFFFFF)) * 1000
\*     + ClockOffset
SplicedResult(estimate) ==
    AddL(MulL(OrLow28(ClearLow28(estimate), LastFragmentUs % 268435456),
              1000),
         motosh_realtime_delta)

\* the event at hub time h has the fragment of the last recover call, lies
\* in another epoch of the 28-bit counter than the estimate and is less
\* than half a wrap period (2^27 us) away from it
IntendedAcrossWrap(h) ==
    LET dist == SubL(I64(h), LastEstimate)
    IN  /\ last.hubshort = (h % 268435456) \div 16
        /\ ClearLow28(I64(h)) # ClearLow28(LastEstimate)
        /\ SLessL(dist, NatL(134217728, W64))
        /\ SLessL(I64(-134217728), dist)

C5_NoWrapNoCorrection ==
    (/\ LastRecoverScaled
     /\ LastDifference <= 130000000
     /\ -LastDifference <= 130000000)
        => last.ret = SplicedResult(LastEstimate)

\* C5 witness: a difference of exactly 130,000,000 us left the estimate's
\* epoch in place
C5_Witness ==
    /\ LastRecoverScaled
    /\ LastDifference = 130000000
    /\ last.ret = SplicedResult(LastEstimate)

(***************************************************************************)
(* Properties of motosh_time_drift_comp                                    *)
(***************************************************************************)
\* observed_offset = host_now - recovered_hub_time of the last compensate
ObservedOffset == SubL(last.cur_time, last.rec_hub)

\* ClockOffset after the last compensate call minus ClockOffset before it
OffsetChange == SubL(motosh_realtime_delta, last.before)

\* 200,000 ns <= observed_offset <= 100,000,000 ns
InBand ==
    /\ SLeqL(NatL(200000, W64), ObservedOffset)
    /\ SLeqL(ObservedOffset, NatL(100000000, W64))

\* C6: upper bound.  A streaming call with observed_offset above
\* 100,000,000 ns raises the offset by exactly 50,000 ns and returns +1; a
\* call with observed_offset exactly 100,000,000 ns changes nothing and
\* returns 0.
C6_UpperBound ==
    last.op = "drift_comp" =>
        /\ (last.streaming /\ SLessL(NatL(100000000, W64), ObservedOffset))
               => /\ OffsetChange = NatL(50000, W64)
                  /\ last.nudged = 1
        /\ ObservedOffset = NatL(100000000, W64)
               => /\ OffsetChange = NatL(0, W64)
                  /\ last.nudged = 0

\* C6 witness: a streaming call one ns above the bound nudged up
C6_Witness ==
    /\ last.op = "drift_comp"
    /\ last.streaming
    /\ ObservedOffset = NatL(100000001, W64)
    /\ last.nudged = 1
    /\ motosh_realtime_delta # last.before

\* C7: lower bound.  For both values of is_streaming a call with
\* observed_offset below 200,000 ns (zero and negative included) lowers the
\* offset by exactly 50,000 ns and returns -1; a call with observed_offset
\* exactly 200,000 ns changes nothing and returns 0.
C7_LowerBound ==
    last.op = "drift_comp" =>
        /\ SLessL(ObservedOffset, NatL(200000, W64))
               => /\ OffsetChange = I64(-50000)
                  /\ last.nudged = -1
        /\ ObservedOffset = NatL(200000, W64)
               => /\ OffsetChange = NatL(0, W64)
                  /\ last.nudged = 0

\* C7 witness: a non-streaming call with a negative observed_offset
\* nudged down
C7_Witness ==
    /\ last.op = "drift_comp"
    /\ ~last.streaming
    /\ IsNegL(ObservedOffset)
    /\ last.nudged = -1
    /\ motosh_realtime_delta # last.before

\* C8: idempotence inside the band.  Every compensate call whose
\* observed_offset is within 200,000 .. 100,000,000 ns leaves the offset as
\* it was and returns 0, so any sequence of such calls leaves the offset at
\* its value before the sequence.
C8_InBandNoChange ==
    (last.op = "drift_comp" /\ InBand)
        => /\ motosh_realtime_delta = last.before
           /\ last.nudged = 0

\* C8 witness: a streaming call strictly inside the band, made after the
\* offset had been nudged, changed nothing
C8_Witness ==
    /\ last.op = "drift_comp"
    /\ last.streaming
    /\ ObservedOffset = NatL(50000000, W64)
    /\ nudges > 0
    /\ motosh_realtime_delta = last.before

\* C9: is_streaming gates only the upper bound.  A call with
\* is_streaming = false never raises the offset and never returns +1: above
\* 100,000,000 ns it changes nothing and returns 0, below 200,000 ns it
\* still nudges down.
C9_StreamingGatesUpperOnly ==
    (last.op = "drift_comp" /\ ~last.streaming)
        => /\ last.nudged # 1
           /\ OffsetChange \in {NatL(0, W64), I64(-50000)}
           /\ SLessL(NatL(100000000, W64), ObservedOffset)
                  => /\ OffsetChange = NatL(0, W64)
                     /\ last.nudged = 0
           /\ SLessL(ObservedOffset, NatL(200000, W64))
                  => /\ OffsetChange = I64(-50000)
                     /\ last.nudged = -1

\* C9 witness: a non-streaming call one ns above the upper bound changed
\* nothing
C9_Witness ==
    /\ last.op = "drift_comp"
    /\ ~last.streaming
    /\ ObservedOffset = NatL(100000001, W64)
    /\ last.nudged = 0
    /\ motosh_realtime_delta = last.before

(***************************************************************************)
(* End to end                                                              *)
(***************************************************************************)
\* the sync of the scenario: host_t1 = 1,050,000,000 ns, the exchange
\* succeeded and the response decodes to 1,000,000 us
ScenarioSync ==
    /\ ts = [tv_sec |-> 1, tv_nsec |-> 50000000]
    /\ err = 0
    /\ readbuff = <<0, 0, 0, 0, 0, 15, 66, 64>>

\* C10: from offset 0, the sync of the scenario sets the offset to
\* 50,000,000; a following recover(125000, 2,051,000,000) applies no span
\* correction and returns 2,050,000,000.
C10_EndToEnd ==
    /\ (last.op = "sync_store" /\ ScenarioSync /\ last.before = NatL(0, W64))
           => motosh_realtime_delta = NatL(50000000, W64)
    /\ (/\ last.op = "recover"
        /\ sync_pc = "idle"
        /\ ScenarioSync
        /\ nudges = 0
        /\ last.hubshort = 125000
        /\ last.cur_time = NatL(2051000000, W64))
           => /\ motosh_realtime_delta = NatL(50000000, W64)
              /\ last.ret = NatL(2050000000, W64)
              /\ last.ret = SplicedResult(LastEstimate)

\* C10 witness: the recover of the scenario has returned after the sync of
\* the scenario
C10_Witness ==
    /\ last.op = "recover"
    /\ sync_pc = "idle"
    /\ ScenarioSync
    /\ nudges = 0
    /\ last.hubshort = 125000
    /\ last.cur_time = NatL(2051000000, W64)
    /\ last.ret = NatL(2050000000, W64)

(***************************************************************************)
(* The lock covers the clock sample and the rising edge only               *)
(***************************************************************************)
\* the sync call is in, or past, the exchange with the hub
InExchange == sync_pc \in {"i2c", "store"}

\* C11: while motosh_time_sync is in the exchange with the hub, or past it,
\* the lock is not held, and no call of motosh_time_recover or
\* motosh_time_drift_comp takes, releases or initialises the lock
C11_LockScope ==
    /\ [](InExchange => time_sync_lock # "locked")
    /\ [][last'.op \in {"recover", "drift_comp"} =>
              time_sync_lock' = time_sync_lock]_vars

\* a nudging drift_comp call completed while the sync was in the exchange
C11_Witness ==
    /\ sync_pc = "i2c"
    /\ time_sync_lock = "unlocked"
    /\ last.op = "drift_comp"
    /\ last.nudged # 0

(***************************************************************************)
(* The order of the steps of one motosh_time_sync call                     *)
(***************************************************************************)
\* C12: what a motosh_time_sync call has done so far is an initial part of
\* SyncOrder, and all of it once the exchange is over, failed or not; the
\* wake line is low from the falling edge to the clock sample and high
\* from the rising edge on; the lock is held from its acquisition to the
\* rising edge
C12_EventOrder ==
    /\ Len(sync_trace) <= Len(SyncOrder)
    /\ sync_trace = SubSeq(SyncOrder, 1, Len(sync_trace))
    /\ (sync_pc = "store" \/ last.op = "sync_store") => sync_trace = SyncOrder
    /\ Len(sync_trace) \in 1..3 => gpio_sh_wake = 0
    /\ Len(sync_trace) >= 4 => gpio_sh_wake = 1
    /\ Len(sync_trace) \in 2..4 <=> time_sync_lock = "locked"

\* a sync call whose exchange failed has completed
C12_Witness ==
    /\ last.op = "sync_store"
    /\ err < 0
    /\ Len(sync_trace) = Len(SyncOrder)

(***************************************************************************)
(* The one time init of the lock                                           *)
(***************************************************************************)
\* C14: spin_lock_init runs only on a lock that was never initialised,
\* which is the case in the first motosh_time_sync call only
C14_LockInitOnce ==
    (last.op = "sync_enter" /\ last.first) => last.lock_was = "zeroed"

(***************************************************************************)
(* The 32-bit arithmetic of motosh_time_recover                            *)
(***************************************************************************)
\* the last recover call scaled its fragment and subtracted it from, and
\* the estimate from it, without leaving the range of int32_t: the scaled
\* fragment is fragment * 16 and is not negative, and each 32-bit
\* difference is the difference of the two integers
LastRecoverExact32 ==
    LET us == HubshortUs(last.hubshort)
        est == ShortHubtimeEstimate(LastEstimate)
    IN  /\ us >= 0
        /\ I64(us) = MulL(I64(last.hubshort), 16)
        /\ I64(Sub32(est, us)) = SubL(I64(est), I64(us))
        /\ I64(Sub32(us, est)) = SubL(I64(us), I64(est))

\* C17 as stated: for every fragment in 0 .. 2^28 - 1 the scaled fragment
\* and both differences are computed without 32-bit overflow
C17_ScalingExact28 ==
    (last.op = "recover" /\ last.hubshort \in 0..268435455)
        => LastRecoverExact32

\* C17 as amended: for every fragment in 0 .. 2^27 - 1 the scaled fragment
\* and both differences are computed without 32-bit overflow
C17_ScalingExact27 ==
    (last.op = "recover" /\ last.hubshort \in 0..134217727)
        => LastRecoverExact32

\* the largest fragment whose microsecond value fits int32_t was recovered
C17_Witness ==
    /\ last.op = "recover"
    /\ last.hubshort = 134217727
    /\ HubshortUs(last.hubshort) = 2147483632

(***************************************************************************)
(* motosh_time_recover changes nothing                                     *)
(***************************************************************************)
\* a is an int64_t
IsInt64(a) == a \in [1..W64 -> 0..(LimbBase - 1)]

\* C18: every call of motosh_time_recover returns an int64_t that is
\* determined by its two arguments and the offset at the call, and leaves
\* the offset, the lock and the wake line as they were
C18_RecoverPure ==
    /\ [](last.op = "recover" =>
             /\ IsInt64(last.ret)
             /\ last.ret = TimeRecover(last.hubshort, last.cur_time,
                                       motosh_realtime_delta,
                                       motosh_realtime_delta))
    /\ [][last'.op = "recover" =>
              UNCHANGED << motosh_realtime_delta, time_sync_lock,
                           gpio_sh_wake >>]_vars

\* recover was called before any sync stored an offset, inside the
\* critical section of the first sync
C18_Witness ==
    /\ last.op = "recover"
    /\ motosh_realtime_delta = NatL(0, W64)
    /\ time_sync_lock = "locked"
    /\ gpio_sh_wake = 0
    /\ last.ret # NatL(0, W64)

(***************************************************************************)
(* Interleaved calls                                                       *)
(***************************************************************************)
\* C13: at most one context is between the read and the write of an update
\* of the offset, and the write of a nudge is based on the value the
\* offset has at that moment, so that no update is lost
C13_SingleWriter ==
    /\ Cardinality({c \in DriftCtxs : drift_ctx[c].pc = "store"}) <= 1
    /\ last.op = "drift_store" => last.loaded = last.before

\* C15: the value returned by motosh_time_recover is the one a call would
\* return that used, for the estimate and for the sum, one of the values
\* the offset had during the call
C15_ConsistentOffset ==
    last.op = "recover_return" =>
        \E d \in last.seen :
            last.ret = TimeRecover(last.hubshort, last.cur_time, d, d)

(***************************************************************************)
(* The stream of events                                                    *)
(***************************************************************************)
\* i and j are calls of drift_comp made for the stream, i before j
EarlierCalls == {p \in (1..Len(stream.results)) \X (1..Len(stream.results)) :
                    p[1] < p[2]}

\* C16: in a stream of events of constant age inside the band, a nudge up
\* makes the next offset 50,000 ns smaller and a nudge down 50,000 ns
\* larger; no nudge down comes after a nudge up, nor a nudge up after a
\* nudge down; once drift_comp returns 0 it returns 0 for every later
\* event, and it does return 0 eventually
C16_Convergence ==
    /\ [](\A i \in 1..(Len(stream.results) - 1) :
             /\ stream.results[i] = 1 =>
                    stream.offsets[i + 1] =
                        SubL(stream.offsets[i], NatL(50000, W64))
             /\ stream.results[i] = -1 =>
                    stream.offsets[i + 1] =
                        AddL(stream.offsets[i], NatL(50000, W64)))
    /\ [](\A p \in EarlierCalls :
             /\ ~(stream.results[p[1]] = 1 /\ stream.results[p[2]] = -1)
             /\ ~(stream.results[p[1]] = -1 /\ stream.results[p[2]] = 1)
             /\ stream.results[p[1]] = 0 => stream.results[p[2]] = 0)
    /\ <>[](/\ Len(stream.results) > 0
            /\ stream.results[Len(stream.results)] = 0)

\* three nudges up were followed by calls that returned 0
C16_Witness ==
    /\ Len(stream.results) = MaxEvents
    /\ SubSeq(stream.results, 1, 4) = << 1, 1, 1, 0 >>
    /\ stream.offsets[1] = NatL(100150000, W64)
    /\ stream.offsets[4] = NatL(100000000, W64)

====
